---- MODULE Spec2Model ----
(***************************************************************************)
(* Model of src/main.py: the live stock news polling loop.                 *)
(*                                                                         *)
(* Strings are sequences of one-character strings, so that Python's        *)
(* substring test `symbol in text` is computed and not assumed.  An        *)
(* optional field of a feed entry (a key that may be absent) is <<>> when  *)
(* absent and <<v>> when present.  Times are whole seconds since the       *)
(* epoch.  Sentiments are in hundredths (3.0 is 300), polarities in        *)
(* ten-thousandths (0.3 is 3000).                                          *)
(***************************************************************************)
EXTENDS Integers, Sequences, FiniteSets, TLC

VARIABLES
    now,          \* the value time.time() returns
    utcoffset,    \* the local zone's offset from UTC, used by time.mktime
    csv,          \* filtered_stocks.csv: <<"absent">> or <<"file", rows>>
    NEWS_CACHE,   \* {news_id: (sentiment, timestamp)}
    pc,           \* main's position in its loop
    symbols,      \* main's local `symbols`
    news_items,   \* main's local `news_items`
    sentiments,   \* main's local `sentiments`
    cycle,        \* number of iterations of `while True` begun
    steps,        \* history: the steps the current iteration has performed
    sourceCalled, \* history: the last get_filtered_stocks queried the source
    trace,        \* history: one record per item of the last process_news
    raised,       \* the exception that left main, "" while main runs
    capturedAt,   \* history: Some(time of the last save_to_csv), Absent if none
    scoredAt,     \* history: id -> (sentiment, time) of the last scorer call
    sourceFailed, \* history: per get_filtered_stocks call, whether its source call failed
    fs_symbols,   \* filter_stocks on its own: the symbols it is given
    fs_info,      \* filter_stocks on its own: symbol -> the quote of yf.Ticker
    fs_filtered,  \* filter_stocks on its own: Some(the list returned), Absent before
    queries       \* history: per request of the last fetch_news call, the symbols it names

selectorProbe == <<fs_symbols, fs_info, fs_filtered>>

vars == <<now, utcoffset, csv, NEWS_CACHE, pc, symbols, news_items,
          sentiments, cycle, steps, sourceCalled, trace, raised, capturedAt,
          scoredAt, sourceFailed, selectorProbe, queries>>

----------------------------------------------------------------------------
(* Bounds of the model *)

MaxItems == 2
MaxCycles == 2
MaxListed == 6

(* Program constants *)

CACHE_DURATION == 24 * 60 * 60
SENTIMENT_TTL == 7200
SWEEP_TTL == 7200
RECENCY_WINDOW == 3600
BACKOFF_INTERVAL == 60
POLL_INTERVAL == 10
MIN_PRICE == 2
MAX_PRICE == 20
FLOAT_CEILING == 20000000
MAX_FILTERED == 5

StartTime == 2 * CACHE_DURATION

\* how much longer than asked a time.sleep can take
Lags == {0, SENTIMENT_TTL - POLL_INTERVAL - 1, SENTIMENT_TTL - POLL_INTERVAL}

\* zone offsets of the machine the program runs on
UtcOffsets == {0 - 3600, 0}

----------------------------------------------------------------------------
(* Strings and dictionaries *)

Absent == <<>>
Some(v) == <<v>>
Has(opt) == Len(opt) > 0
Val(opt) == opt[1]

Range(s) == {s[i] : i \in 1..Len(s)}

\* Python's `sub in text` on strings
Contains(text, sub) ==
    \E i \in 0..(Len(text) - Len(sub)) : SubSeq(text, i + 1, i + Len(sub)) = sub

EmptyDict == [k \in {} |-> <<>>]

DictSet(d, k, v) == [x \in (DOMAIN d) \cup {k} |-> IF x = k THEN v ELSE d[x]]

----------------------------------------------------------------------------
(* Step 1 and 2: the symbol universe and its CSV cache *)

SymA == <<"A">>
SymB == <<"B">>

Bar == "|"
SymbolWord == <<"S", "y", "m", "b", "o", "l">>

\* line.split('|')[0]
RECURSIVE SplitFirst(_)
SplitFirst(line) ==
    IF line = <<>> \/ Head(line) = Bar THEN <<>>
    ELSE <<Head(line)>> \o SplitFirst(Tail(line))

\* [line.split('|')[0] for line in lines if '|' in line and 'Symbol' not in line]
RECURSIVE ParseLines(_)
ParseLines(lines) ==
    IF lines = <<>> THEN <<>>
    ELSE LET line == Head(lines)
             rest == ParseLines(Tail(lines))
         IN IF Contains(line, <<Bar>>) /\ ~Contains(line, SymbolWord)
            THEN <<SplitFirst(line)>> \o rest
            ELSE rest

\* response: [ok |-> FALSE] when requests raises, else the lines of the body
fetch_nasdaq_symbols(response) ==
    IF ~response.ok THEN <<>> ELSE ParseLines(response.lines)

\* the filter with the upper price limit left out of the range
QuoteQualifies_strict(q) ==
    LET price == IF Has(q.price) THEN Val(q.price) ELSE 0
    IN /\ q.kind = "ok"
       /\ MIN_PRICE * 100 <= price
       /\ price < MAX_PRICE * 100
       /\ Has(q.floatShares)
       /\ Val(q.floatShares) < FLOAT_CEILING

\* a quote is what yf.Ticker(symbol).info gives: kind "raises" when the lookup
\* raises, "none" when regularMarketPrice is present but None; price in cents
QuoteQualifies(q) ==
    LET price == IF Has(q.price) THEN Val(q.price) ELSE 0
    IN /\ q.kind = "ok"
       /\ MIN_PRICE * 100 <= price
       /\ price <= MAX_PRICE * 100
       /\ Has(q.floatShares)
       /\ Val(q.floatShares) < FLOAT_CEILING

RECURSIVE FilterLoop(_, _, _)
FilterLoop(syms, info, filtered) ==
    IF syms = <<>> THEN filtered
    ELSE IF QuoteQualifies(info[Head(syms)])
         THEN LET f == Append(filtered, Head(syms))
              IN IF Len(f) = MAX_FILTERED THEN f
                 ELSE FilterLoop(Tail(syms), info, f)
         ELSE FilterLoop(Tail(syms), info, filtered)

filter_stocks(syms, info) == FilterLoop(syms, info, <<>>)

\* save_to_csv taking the time anew for every row
save_to_csv_per_row(syms, t) ==
    [exists |-> TRUE, rows |-> [i \in 1..Len(syms) |-> <<syms[i], t + i - 1>>]]

\* the timestamp is written as repr(float) and read back with float(): exact
save_to_csv(syms, t) ==
    [exists |-> TRUE, rows |-> [i \in 1..Len(syms) |-> <<syms[i], t>>]]

\* load_from_csv serving a file aged exactly CACHE_DURATION
load_from_csv_le(file, t) ==
    IF ~file.exists THEN Absent
    ELSE LET data == file.rows
         IN IF data # <<>> /\ (t - data[1][2]) <= CACHE_DURATION
            THEN Some([i \in 1..Len(data) |-> data[i][1]])
            ELSE Absent

\* load_from_csv serving a file that holds no row
load_from_csv_empty(file, t) ==
    IF ~file.exists THEN Absent
    ELSE LET data == file.rows
         IN IF data = <<>> \/ (t - data[1][2]) < CACHE_DURATION
            THEN Some([i \in 1..Len(data) |-> data[i][1]])
            ELSE Absent

\* None is Absent, a list is Some(list)
load_from_csv(file, t) ==
    IF ~file.exists THEN Absent
    ELSE LET data == file.rows
         IN IF data # <<>> /\ (t - data[1][2]) < CACHE_DURATION
            THEN Some([i \in 1..Len(data) |-> data[i][1]])
            ELSE Absent

\* what the symbol source and the quote service can answer in the model
Listing ==
    << SymbolWord \o <<Bar, "N">>, SymA \o <<Bar, "x">>, SymB \o <<Bar, "y">> >>

SourceResponses == {[ok |-> FALSE, lines |-> <<>>], [ok |-> TRUE, lines |-> Listing]}

Quotes ==
    { [kind |-> "ok", price |-> Some(1000), floatShares |-> Some(10000000)],
      [kind |-> "ok", price |-> Some(2500), floatShares |-> Some(10000000)],
      [kind |-> "raises", price |-> Absent, floatShares |-> Absent] }

\* get_filtered_stocks: the list returned, the file left, whether the source was called
get_filtered_stocks(file, t, response, info) ==
    LET cached == load_from_csv(file, t)
    IN IF Has(cached)
       THEN [result |-> Val(cached), file |-> file, called |-> FALSE]
       ELSE LET filtered == filter_stocks(fetch_nasdaq_symbols(response), info)
            IN [result |-> filtered, file |-> save_to_csv(filtered, t), called |-> TRUE]

----------------------------------------------------------------------------
(* Step 3: news, sentiment and the per-symbol snapshot *)

Space == " "
Str1 == <<"1">>
Url1 == <<"u", "1">>
Url2 == <<"u", "2">>
Str4 == <<"4">>
Str5 == <<"5">>
Malformed == <<"?">>

\* TextBlob(text).sentiment.polarity in ten-thousandths; Absent when TextBlob raises
Polarity(text) ==
    IF Contains(text, Malformed) THEN Absent
    ELSE IF text = SymA \o <<Space>> THEN Some(3000)
    ELSE IF text = SymB \o <<Space>> THEN Some(0 - 2504)
    ELSE IF text = SymB \o <<Space>> \o SymA THEN Some(1256)
    ELSE Some(0)

\* round(x, 2) of x = p * 10 / 10000, in hundredths: p / 10 to the nearest, ties to even
Round2(p) ==
    LET a == IF p < 0 THEN 0 - p ELSE p
        q == a \div 10
        r == a % 10
        m == IF r > 5 \/ (r = 5 /\ q % 2 = 1) THEN q + 1 ELSE q
    IN IF p < 0 THEN 0 - m ELSE m

\* Absent when it raises, else Some(sentiment)
analyze_sentiment(text) ==
    LET pol == Polarity(text)
    IN IF Has(pol) THEN Some(Round2(Val(pol))) ELSE Absent

\* time.mktime reads the broken-down UTC time of published_parsed as local time
mktime(utc, offset) == utc - offset

\* item.get('id', item.get('link', item.title)): the arguments are evaluated
\* first, so a missing title raises whatever the other keys hold
news_id(item) ==
    IF ~Has(item.title) THEN Absent
    ELSE IF Has(item.id) THEN item.id
    ELSE IF Has(item.link) THEN item.link
    ELSE item.title

\* index of the symbol the scan `for symbol in symbols` stops at, 0 if none
FirstMatch(syms, text) ==
    IF \E i \in 1..Len(syms) : Contains(text, syms[i])
    THEN CHOOSE i \in 1..Len(syms) :
            /\ Contains(text, syms[i])
            /\ \A j \in 1..(i - 1) : ~Contains(text, syms[j])
    ELSE 0

\* the lookup serving an entry aged exactly SENTIMENT_TTL
cache_hit_le(cache, key, current_time) ==
    /\ key \in DOMAIN cache
    /\ (current_time - cache[key][2]) <= SENTIMENT_TTL

\* news_id in NEWS_CACHE and (current_time - NEWS_CACHE[news_id][1]) < 7200
cache_hit(cache, key, current_time) ==
    /\ key \in DOMAIN cache
    /\ (current_time - cache[key][2]) < SENTIMENT_TTL

\* (current_time - time.mktime(item.published_parsed)) < 3600
is_recent(published_parsed, current_time, offset) ==
    (current_time - mktime(published_parsed, offset)) < RECENCY_WINDOW

\* item.title + " " + item.get('summary', '')
item_text(item) ==
    Val(item.title) \o <<Space>>
        \o (IF Has(item.summary) THEN Val(item.summary) ELSE <<>>)

\* a lookup that stamps the entry it serves with the time of the hit
cache_after_refresh(cache, key, hit, sentiment, current_time) ==
    DictSet(cache, key, <<sentiment, current_time>>)

\* sentiment, _ = NEWS_CACHE[news_id] leaves the cache as it is (line 116);
\* NEWS_CACHE[news_id] = (sentiment, current_time) after a scorer call (line 121)
cache_after(cache, key, hit, sentiment, current_time) ==
    IF hit THEN cache ELSE DictSet(cache, key, <<sentiment, current_time>>)

\* an assignment that accumulates the scores of a symbol
assign_sum(snapshot, symbol, sentiment) ==
    [snapshot EXCEPT ![symbol] = @ + sentiment]

\* sentiments[symbol] = sentiment
assign(snapshot, symbol, sentiment) == [snapshot EXCEPT ![symbol] = sentiment]

NoStep ==
    [id |-> Absent, hit |-> FALSE, scored |-> FALSE, sentiment |-> Absent,
     text |-> Absent, matched |-> Absent, assigned |-> FALSE]

\* one iteration of `for item in news_items`; st.text is the local `text`,
\* Absent while it is unbound; st.exc names the exception raised, "" if none
process_item(item, syms, current_time, offset, st) ==
    LET nid == news_id(item)
    IN IF ~Has(nid)
       THEN [st EXCEPT !.exc = "AttributeError", !.trace = Append(@, NoStep)]
       ELSE
       LET key == Val(nid)
           hit == cache_hit(st.cache, key, current_time)
           newtext == item_text(item)
           text == IF hit THEN st.text ELSE Some(newtext)
           score == IF hit THEN Some(st.cache[key][1]) ELSE analyze_sentiment(newtext)
           step == [NoStep EXCEPT !.id = nid, !.hit = hit, !.text = text]
       IN IF ~Has(score)
          THEN [st EXCEPT !.exc = "ScorerError", !.text = text,
                          !.trace = Append(@, step)]
          ELSE
          LET sentiment == Val(score)
              cache == cache_after(st.cache, key, hit, sentiment, current_time)
              step2 == [step EXCEPT !.sentiment = score, !.scored = ~hit]
              st2 == [st EXCEPT !.cache = cache, !.text = text]
          IN IF syms = <<>>
             THEN [st2 EXCEPT !.trace = Append(@, step2)]
             ELSE IF ~Has(text)
             THEN [st2 EXCEPT !.exc = "UnboundLocalError", !.trace = Append(@, step2)]
             ELSE
             LET m == FirstMatch(syms, Val(text))
             IN IF m = 0
                THEN [st2 EXCEPT !.trace = Append(@, step2)]
                ELSE
                LET step3 == [step2 EXCEPT !.matched = Some(syms[m])]
                IN IF ~Has(item.published_parsed)
                   THEN [st2 EXCEPT !.exc = "AttributeError",
                                    !.trace = Append(@, step3)]
                   ELSE IF is_recent(Val(item.published_parsed), current_time, offset)
                   THEN [st2 EXCEPT
                           !.sentiments = assign(@, syms[m], sentiment),
                           !.trace = Append(@, [step3 EXCEPT !.assigned = TRUE])]
                   ELSE [st2 EXCEPT !.trace = Append(@, step3)]

RECURSIVE ProcessLoop(_, _, _, _, _)
ProcessLoop(items, syms, current_time, offset, st) ==
    IF items = <<>> \/ st.exc # "" THEN st
    ELSE ProcessLoop(Tail(items), syms, current_time, offset,
                     process_item(Head(items), syms, current_time, offset, st))

\* process_news: .sentiments is what it returns when .exc = ""
process_news(items, syms, current_time, offset, cache) ==
    ProcessLoop(items, syms, current_time, offset,
                [cache |-> cache,
                 sentiments |-> [s \in Range(syms) |-> 0],
                 text |-> Absent,
                 trace |-> <<>>,
                 exc |-> ""])

\* (current_time - v[1]) > 7200
sweep_expired(v, current_time) == (current_time - v[2]) > SWEEP_TTL

\* clean_cache
clean_cache(cache, current_time) ==
    LET to_remove == {k \in DOMAIN cache : sweep_expired(cache[k], current_time)}
    IN [k \in (DOMAIN cache) \ to_remove |-> cache[k]]

\* the entries the feed can carry at time t
Recent(t) == Some(t - (RECENCY_WINDOW - 1))
Boundary(t) == Some(t - RECENCY_WINDOW)
Old(t) == Some(t - (RECENCY_WINDOW + 1))

Entry(i, l, t, s, p) ==
    [id |-> i, link |-> l, title |-> t, summary |-> s, published_parsed |-> p]

Pool(t) ==
    {Entry(Some(Str1), Some(Url1), Some(SymA), Absent, p) :
        p \in {Recent(t), Boundary(t), Old(t), Absent}}
    \cup {Entry(Absent, Some(Url2), Some(SymB), Some(SymA), p) :
        p \in {Recent(t), Old(t)}}
    \cup {Entry(Absent, Absent, Some(SymB), Absent, Recent(t)),
          Entry(Some(Str4), Absent, Some(Malformed), Absent, Recent(t)),
          Entry(Some(Str5), Absent, Absent, Absent, Recent(t))}

\* a feed lists an article once: no two entries of a list share id, link and title
SameArticle(a, b) == a.id = b.id /\ a.link = b.link /\ a.title = b.title

EntryLists(t) ==
    {l \in UNION {[1..n -> Pool(t)] : n \in 0..MaxItems} :
        \A i, j \in 1..Len(l) : i # j => ~SameArticle(l[i], l[j])}

\* feedparser.parse: it raises, or sets bozo, or gives the entries
Feeds(t) ==
    {[kind |-> "raises", entries |-> <<>>]}
    \cup {[kind |-> "bozo", entries |-> e] : e \in [1..1 -> Pool(t)]}
    \cup {[kind |-> "ok", entries |-> e] : e \in EntryLists(t)}

fetch_news(feed) == IF feed.kind = "ok" THEN feed.entries ELSE <<>>

----------------------------------------------------------------------------
(* The main loop *)

\* the file a previous run of the program can have left behind
InitFiles ==
    {[exists |-> FALSE, rows |-> <<>>]}
    \cup {save_to_csv(<<SymA, SymB>>, StartTime - (CACHE_DURATION - SENTIMENT_TTL))}

\* if not symbols: back off (line 148)
after_select(result) == IF result = <<>> THEN "backoff" ELSE "fetch"

\* main without the check of line 155
after_fetch_unchecked(items) == "aggregate"

\* if not news_items: back off (line 155)
after_fetch(items) == IF items = <<>> THEN "backoff" ELSE "aggregate"

Init ==
    /\ now = StartTime
    /\ utcoffset \in UtcOffsets
    /\ csv \in InitFiles
    /\ capturedAt = IF csv.exists
                    THEN Some(StartTime - (CACHE_DURATION - SENTIMENT_TTL))
                    ELSE Absent
    /\ NEWS_CACHE = EmptyDict
    /\ pc = "select"
    /\ symbols = <<>>
    /\ news_items = <<>>
    /\ sentiments = EmptyDict
    /\ cycle = 0
    /\ steps = <<>>
    /\ sourceCalled = FALSE
    /\ trace = <<>>
    /\ raised = ""
    /\ scoredAt = EmptyDict
    /\ sourceFailed = <<>>
    /\ fs_symbols = <<>>
    /\ fs_info = EmptyDict
    /\ fs_filtered = Absent
    /\ queries = <<>>

\* symbols = get_filtered_stocks(); if not symbols: ... (lines 147-149)
Select ==
    /\ pc = "select"
    /\ cycle < MaxCycles
    /\ \E response \in SourceResponses :
        \E info \in [Range(fetch_nasdaq_symbols(response)) -> Quotes] :
            LET r == get_filtered_stocks(csv, now, response, info)
            IN /\ symbols' = r.result
               /\ csv' = r.file
               /\ sourceCalled' = r.called
               /\ capturedAt' = IF r.called THEN Some(now) ELSE capturedAt
               /\ sourceFailed' = Append(sourceFailed, r.called /\ ~response.ok)
               /\ pc' = after_select(r.result)
               /\ steps' = << <<"SELECTING", Len(r.result)>> >>
    /\ cycle' = cycle + 1
    /\ UNCHANGED <<now, utcoffset, NEWS_CACHE, news_items, sentiments, trace,
                   raised, scoredAt,
                   selectorProbe, queries>>

\* time.sleep(60); continue (lines 150-151 and 157-158)
Backoff ==
    /\ pc = "backoff"
    /\ \E lag \in Lags : now' = now + BACKOFF_INTERVAL + lag
    /\ steps' = Append(steps, <<"SLEEP", BACKOFF_INTERVAL>>)
    /\ pc' = "select"
    /\ UNCHANGED <<utcoffset, csv, NEWS_CACHE, symbols, news_items, sentiments,
                   cycle, sourceCalled, sourceFailed, trace, raised, capturedAt, scoredAt,
                   selectorProbe, queries>>

\* news_items = fetch_news(); if not news_items: ... (lines 154-156)
\* RSS_FEED_URL ends in ?s=^IXIC (line 14): the one symbol the feed is asked for
IXIC == <<"^", "I", "X", "I", "C">>

\* feedparser.parse(RSS_FEED_URL) (line 91): fetch_news takes no argument and
\* makes one request, for the one feed of the program
feed_requests == <<{IXIC}>>

Fetch ==
    /\ pc = "fetch"
    /\ \E feed \in Feeds(now) :
        /\ news_items' = fetch_news(feed)
        /\ pc' = after_fetch(fetch_news(feed))
        /\ steps' = Append(steps, <<"FETCHING", Len(fetch_news(feed))>>)
    /\ queries' = feed_requests
    /\ UNCHANGED <<now, utcoffset, csv, NEWS_CACHE, symbols, sentiments, cycle,
                   sourceCalled, sourceFailed, trace, raised, capturedAt, scoredAt,
                   selectorProbe>>

\* the scorer calls of a run of process_news, added to the history
Scored(tr, t, old) ==
    LET ids == {Val(tr[i].id) : i \in {j \in 1..Len(tr) : tr[j].scored}}
        last(k) == CHOOSE i \in 1..Len(tr) :
                      /\ tr[i].scored /\ Val(tr[i].id) = k
                      /\ \A j \in (i + 1)..Len(tr) :
                            ~(tr[j].scored /\ Val(tr[j].id) = k)
    IN [k \in (DOMAIN old) \cup ids |->
          IF k \in ids THEN <<Val(tr[last(k)].sentiment), t>> ELSE old[k]]

\* sentiments = process_news(news_items, symbols) (line 160); an exception it
\* raises is caught nowhere and ends main
Aggregate ==
    /\ pc = "aggregate"
    /\ LET r == process_news(news_items, symbols, now, utcoffset, NEWS_CACHE)
       IN /\ NEWS_CACHE' = r.cache
          /\ trace' = r.trace
          /\ scoredAt' = Scored(r.trace, now, scoredAt)
          /\ raised' = r.exc
          /\ IF r.exc = ""
             THEN sentiments' = r.sentiments /\ pc' = "report"
             ELSE sentiments' = sentiments /\ pc' = "raised"
    /\ steps' = Append(steps, <<"AGGREGATING", 0>>)
    /\ UNCHANGED <<now, utcoffset, csv, symbols, news_items, cycle, sourceCalled, sourceFailed,
                   capturedAt,
                   selectorProbe, queries>>

\* the report (lines 163-165); news_items, sentiments and the history of the
\* aggregation are not read again before they are assigned anew
Report ==
    /\ pc = "report"
    /\ pc' = "sweep"
    /\ steps' = Append(steps, <<"REPORTING", 0>>)
    /\ news_items' = <<>>
    /\ sentiments' = EmptyDict
    /\ trace' = <<>>
    /\ UNCHANGED <<now, utcoffset, csv, NEWS_CACHE, symbols, cycle, sourceCalled, sourceFailed,
                   raised, capturedAt, scoredAt,
                   selectorProbe, queries>>

\* the sweep with the sleep of line 172 left out
Sweep_no_sleep ==
    /\ pc = "sweep"
    /\ NEWS_CACHE' = clean_cache(NEWS_CACHE, now)
    /\ pc' = "select"
    /\ steps' = Append(steps, <<"SWEEP", 0>>)
    /\ UNCHANGED <<now, utcoffset, csv, symbols, news_items, sentiments, cycle,
                   sourceCalled, sourceFailed, trace, raised, capturedAt, scoredAt,
                   selectorProbe, queries>>

\* clean_cache() (line 168)
Sweep ==
    /\ pc = "sweep"
    /\ NEWS_CACHE' = clean_cache(NEWS_CACHE, now)
    /\ pc' = "sleep"
    /\ steps' = Append(steps, <<"SWEEP", 0>>)
    /\ UNCHANGED <<now, utcoffset, csv, symbols, news_items, sentiments, cycle,
                   sourceCalled, sourceFailed, trace, raised, capturedAt, scoredAt,
                   selectorProbe, queries>>

\* time.sleep(10) (line 172), then the next iteration
Sleep ==
    /\ pc = "sleep"
    /\ \E lag \in Lags : now' = now + POLL_INTERVAL + lag
    /\ steps' = Append(steps, <<"SLEEP", POLL_INTERVAL>>)
    /\ pc' = "select"
    /\ UNCHANGED <<utcoffset, csv, NEWS_CACHE, symbols, news_items, sentiments,
                   cycle, sourceCalled, sourceFailed, trace, raised, capturedAt, scoredAt,
                   selectorProbe, queries>>

Next == Select \/ Backoff \/ Fetch \/ Aggregate \/ Report \/ Sweep \/ Sleep

Spec == Init /\ [][Next]_vars

----------------------------------------------------------------------------
(* filter_stocks on its own, over listings longer than MAX_FILTERED and
   quotes at and around the limits of the filter *)

mainVars == <<now, utcoffset, csv, NEWS_CACHE, pc, symbols, news_items,
              sentiments, cycle, steps, sourceCalled, trace, raised,
              capturedAt, scoredAt, sourceFailed, queries>>

\* main has not started
MainAtRest ==
    /\ now = StartTime
    /\ utcoffset = 0
    /\ csv = [exists |-> FALSE, rows |-> <<>>]
    /\ NEWS_CACHE = EmptyDict
    /\ pc = "select"
    /\ symbols = <<>>
    /\ news_items = <<>>
    /\ sentiments = EmptyDict
    /\ cycle = 0
    /\ steps = <<>>
    /\ sourceCalled = FALSE
    /\ trace = <<>>
    /\ raised = ""
    /\ capturedAt = Absent
    /\ scoredAt = EmptyDict
    /\ sourceFailed = <<>>
    /\ queries = <<>>

\* the symbols X, XX, XXX, ... of a listing
ListedSymbol(i) == [j \in 1..i |-> "X"]

FilterListing == [i \in 1..MaxListed |-> ListedSymbol(i)]

Quote(kind, price, floatShares) ==
    [kind |-> kind, price |-> price, floatShares |-> floatShares]

\* a quote well inside the range
PlainQuote == Quote("ok", Some(1000), Some(FLOAT_CEILING \div 2))

\* quotes at the limits of line 40, with a field missing, with a price that
\* is None, and a lookup that raises; prices in cents
EdgeQuotes ==
    { Quote("ok", Some(MIN_PRICE * 100), Some(FLOAT_CEILING - 1)),
      Quote("ok", Some(MIN_PRICE * 100 - 1), Some(FLOAT_CEILING \div 2)),
      Quote("ok", Some(MAX_PRICE * 100), Some(FLOAT_CEILING \div 2)),
      Quote("ok", Some(MAX_PRICE * 100 + 1), Some(FLOAT_CEILING \div 2)),
      Quote("ok", Absent, Some(FLOAT_CEILING \div 2)),
      Quote("none", Absent, Some(FLOAT_CEILING \div 2)),
      Quote("ok", Some(1000), Some(FLOAT_CEILING)),
      Quote("ok", Some(1000), Absent),
      Quote("raises", Absent, Absent) }

FilterInit ==
    /\ MainAtRest
    /\ \E n \in 0..MaxListed : fs_symbols = SubSeq(FilterListing, 1, n)
    /\ \E q1, q2 \in EdgeQuotes :
          fs_info \in [Range(fs_symbols) -> {PlainQuote, q1, q2}]
    /\ fs_filtered = Absent

\* filtered = filter_stocks(symbols) (line 81)
FilterStocks ==
    /\ fs_filtered = Absent
    /\ fs_filtered' = Some(filter_stocks(fs_symbols, fs_info))
    /\ UNCHANGED <<mainVars, fs_symbols, fs_info>>

FilterNext == FilterStocks

FilterSpec == FilterInit /\ [][FilterNext]_vars

----------------------------------------------------------------------------
(* Properties *)

StepNames == [i \in 1..Len(steps) |-> steps[i][1]]

IsPrefix(a, b) == Len(a) <= Len(b) /\ SubSeq(b, 1, Len(a)) = a

SuccessOrder ==
    <<"SELECTING", "FETCHING", "AGGREGATING", "REPORTING", "SWEEP", "SLEEP">>

\* the universe a file holds
Universe(file) == [i \in 1..Len(file.rows) |-> file.rows[i][1]]

\* the last scoring of the identity of step i of a run of process_news before
\* that step: an earlier step of the run, else the history `old`
PriorScore(tr, i, t, old) ==
    LET k == Val(tr[i].id)
        earlier == {j \in 1..(i - 1) : tr[j].scored /\ Val(tr[j].id) = k}
    IN IF earlier # {}
       THEN LET j == CHOOSE m \in earlier : \A n \in earlier : n <= m
            IN Some(<<Val(tr[j].sentiment), t>>)
       ELSE IF k \in DOMAIN old THEN Some(old[k]) ELSE Absent

\* C1: an identity last scored at t0 and seen again at t is served from the
\* cache with the stored score and without a scorer call when
\* t - t0 < SENTIMENT_TTL, and is scored again and stored as (score, t) when
\* t - t0 >= SENTIMENT_TTL, whatever polls, sweeps and sleeps lie in between.
C1_CacheHitMiss ==
    [][pc = "aggregate" =>
        \A i \in 1..Len(trace') :
            Has(trace'[i].id) =>
                LET prior == PriorScore(trace', i, now, scoredAt)
                    k == Val(trace'[i].id)
                IN Has(prior) =>
                    IF now - Val(prior)[2] < SENTIMENT_TTL
                    THEN /\ trace'[i].hit
                         /\ ~trace'[i].scored
                         /\ trace'[i].sentiment = Some(Val(prior)[1])
                    ELSE /\ ~trace'[i].hit
                         /\ trace'[i].scored
                         /\ k \in DOMAIN NEWS_CACHE'
                         /\ NEWS_CACHE'[k] = <<Val(trace'[i].sentiment), now>>
    ]_vars

\* an identity scored one second less than SENTIMENT_TTL ago is served from the cache
C1_Witness ==
    \E i \in 1..Len(trace) :
        /\ trace[i].hit
        /\ Val(trace[i].id) \in DOMAIN scoredAt
        /\ now - scoredAt[Val(trace[i].id)][2] = SENTIMENT_TTL - 1

\* C2 as claimed: every persisted universe, empty or not, captured at t0 is
\* served without a source call while t < t0 + CACHE_DURATION and is rebuilt
\* with a new capture time from t0 + CACHE_DURATION on.
C2_Claimed ==
    [][(pc = "select" /\ cycle' # cycle /\ Has(capturedAt)) =>
        IF now - Val(capturedAt) < CACHE_DURATION
        THEN /\ ~sourceCalled'
             /\ symbols' = Universe(csv)
             /\ csv' = csv
        ELSE /\ sourceCalled'
             /\ capturedAt' = Some(now)
             /\ csv' = save_to_csv(symbols', now)
    ]_vars

\* C2 amended: a non-empty universe captured at t0 is served without a source
\* call while t < t0 + CACHE_DURATION; from t0 + CACHE_DURATION on, and at
\* every request while the persisted universe is empty, the source is called
\* and the file is replaced by the new universe, every row carrying the new
\* capture time.
C2_UniverseTTL ==
    [][(pc = "select" /\ cycle' # cycle /\ Has(capturedAt)) =>
        IF csv.rows # <<>> /\ now - Val(capturedAt) < CACHE_DURATION
        THEN /\ ~sourceCalled'
             /\ symbols' = Universe(csv)
             /\ csv' = csv
        ELSE /\ sourceCalled'
             /\ capturedAt' = Some(now)
             /\ Universe(csv') = symbols'
             /\ \A i \in 1..Len(csv'.rows) : csv'.rows[i][2] = now
    ]_vars

\* a universe captured one second less than CACHE_DURATION ago has been served
C2_Witness ==
    /\ Len(steps) = 1
    /\ ~sourceCalled
    /\ symbols # <<>>
    /\ Has(capturedAt)
    /\ now - Val(capturedAt) = CACHE_DURATION - 1

\* C3: no exception leaves a cycle of main.
C3_Claimed == raised = "" /\ pc # "raised"

\* C4: an item published RECENCY_WINDOW or more before now sets no snapshot
\* value; an item published RECENCY_WINDOW - 1 s before now whose text
\* contains a symbol of the universe sets a symbol of its text to its score.
C4_Claimed ==
    \A i \in 1..Len(trace) :
        LET item == news_items[i]
        IN Has(item.published_parsed) =>
            /\ (now - Val(item.published_parsed) >= RECENCY_WINDOW
                    => ~trace[i].assigned)
            /\ (/\ now - Val(item.published_parsed) = RECENCY_WINDOW - 1
                /\ Has(item.title)
                /\ FirstMatch(symbols, item_text(item)) # 0)
                    => /\ trace[i].assigned
                       /\ Contains(item_text(item), Val(trace[i].matched))
                       /\ raised = "" =>
                            \E j \in i..Len(trace) :
                                /\ trace[j].assigned
                                /\ trace[j].matched = trace[i].matched
                                /\ sentiments[Val(trace[i].matched)]
                                      = Val(trace[j].sentiment)

\* C5: an item without published_parsed sets no snapshot value and raises
\* nothing: process_news goes on to the items after it.
C5_Claimed ==
    \A i \in 1..Len(trace) :
        ~Has(news_items[i].published_parsed) =>
            /\ ~trace[i].assigned
            /\ ~(i = Len(trace) /\ raised # "")

\* C6: the snapshot has the symbols of the universe as keys, and a symbol
\* that no recent item of this cycle mentions is neutral.
C6_Claimed ==
    pc = "report" =>
        /\ DOMAIN sentiments = Range(symbols)
        /\ \A s \in Range(symbols) :
            (~\E i \in 1..Len(news_items) :
                LET item == news_items[i]
                IN /\ Has(item.title)
                   /\ Has(item.published_parsed)
                   /\ now - Val(item.published_parsed) < RECENCY_WINDOW
                   /\ Contains(item_text(item), s))
                => sentiments[s] = 0

\* C7: an item sets the value of no symbol but the first symbol of the
\* universe that its own text contains, and of none when it is not recent.
C7_Claimed ==
    \A i \in 1..Len(trace) :
        LET item == news_items[i]
        IN trace[i].assigned =>
            /\ Has(item.title)
            /\ FirstMatch(symbols, item_text(item)) # 0
            /\ Val(trace[i].matched) = symbols[FirstMatch(symbols, item_text(item))]
            /\ now - Val(item.published_parsed) < RECENCY_WINDOW

\* C8: process_news called again with the same items, universe and clock,
\* on the cache the first call left, returns the same snapshot.
C8_Claimed ==
    pc = "report" =>
        LET again == process_news(news_items, symbols, now, utcoffset, NEWS_CACHE)
        IN again.exc = "" /\ again.sentiments = sentiments

\* C9: a cycle whose selector yields no symbol does nothing but sleep
\* BACKOFF_INTERVAL, a cycle whose fetch yields no item does nothing more but
\* sleep BACKOFF_INTERVAL (no aggregation, no sweep), and main is back at
\* the selection after that sleep.
C9_EmptyBackoff ==
    \A i \in 1..Len(steps) :
        (steps[i] = <<"SELECTING", 0>> \/ steps[i] = <<"FETCHING", 0>>) =>
            /\ StepNames \in {<<"SELECTING">>, <<"SELECTING", "SLEEP">>,
                              <<"SELECTING", "FETCHING">>,
                              <<"SELECTING", "FETCHING", "SLEEP">>}
            /\ i = Len(steps) => pc = "backoff"
            /\ i < Len(steps) =>
                /\ Len(steps) = i + 1
                /\ steps[i + 1] = <<"SLEEP", BACKOFF_INTERVAL>>
                /\ pc = "select"

\* a cycle whose fetch yielded no item has slept and is back at the selection
C9_Witness ==
    /\ Len(steps) = 3
    /\ steps[1][2] > 0
    /\ steps[2] = <<"FETCHING", 0>>
    /\ steps[3] = <<"SLEEP", BACKOFF_INTERVAL>>
    /\ pc = "select"

\* C10: a cycle that aggregates performs SELECTING, FETCHING, AGGREGATING,
\* REPORTING, sweep, sleep(POLL_INTERVAL) in this order, each once; the
\* selection of the next cycle starts only after the sleep.
C10_CycleOrder ==
    /\ ("AGGREGATING" \in Range(StepNames) => IsPrefix(StepNames, SuccessOrder))
    /\ (StepNames = SuccessOrder => steps[Len(steps)] = <<"SLEEP", POLL_INTERVAL>>)
    /\ (pc = "select" /\ cycle > 0 => StepNames[Len(steps)] = "SLEEP")
    /\ (pc = "aggregate" => StepNames = <<"SELECTING", "FETCHING">>)
    /\ (pc = "report" => StepNames = SubSeq(SuccessOrder, 1, 3))
    /\ (pc = "sweep" => StepNames = SubSeq(SuccessOrder, 1, 4))
    /\ (pc = "sleep" => StepNames = SubSeq(SuccessOrder, 1, 5))

\* a second cycle has run to the end of its sleep
C10_Witness ==
    /\ cycle = 2
    /\ StepNames = SuccessOrder
    /\ pc = "select"

\* C11: the sweep at time now removes exactly the entries with
\* now - scored_at >= SENTIMENT_TTL: every entry left has
\* now - scored_at < SENTIMENT_TTL (an entry aged exactly SENTIMENT_TTL is
\* removed), and every entry with now - scored_at < SENTIMENT_TTL is kept as
\* it was.
C11_Claimed ==
    [][pc = "sweep" =>
        /\ DOMAIN NEWS_CACHE' =
              {k \in DOMAIN NEWS_CACHE : now - NEWS_CACHE[k][2] < SENTIMENT_TTL}
        /\ \A k \in DOMAIN NEWS_CACHE' : NEWS_CACHE'[k] = NEWS_CACHE[k]
    ]_vars

\* C14: an item whose scorer call raises gets the neutral score, (0, now) is
\* stored under its identity, and process_news goes on to the next items.
C14_Claimed ==
    \A i \in 1..Len(trace) :
        (/\ Has(trace[i].id)
         /\ ~trace[i].hit
         /\ ~Has(analyze_sentiment(item_text(news_items[i]))))
            => /\ trace[i].sentiment = Some(0)
               /\ Val(trace[i].id) \in DOMAIN NEWS_CACHE
               /\ NEWS_CACHE[Val(trace[i].id)] = <<0, now>>
               /\ raised # "ScorerError"

\* C17: an item whose score is served from the cache is matched on its own
\* title and summary, never on the text of an earlier item and never on an
\* undefined text.
C17_Claimed ==
    \A i \in 1..Len(trace) :
        (Has(trace[i].id) /\ trace[i].hit) =>
            /\ trace[i].text = Some(item_text(news_items[i]))
            /\ raised # "UnboundLocalError"
            /\ LET m == FirstMatch(symbols, item_text(news_items[i]))
               IN trace[i].matched = IF m = 0 THEN Absent ELSE Some(symbols[m])

\* C20: an entry that the sweep would retain at the present clock value is a
\* hit for the lookup at that clock value: retention and validity agree on
\* every age, the age SENTIMENT_TTL included.
C20_Claimed ==
    \A k \in DOMAIN NEWS_CACHE :
        ~sweep_expired(NEWS_CACHE[k], now) => cache_hit(NEWS_CACHE, k, now)

\* C13: a get_filtered_stocks call whose source call fails returns the empty
\* universe and raises nothing, and the next get_filtered_stocks call queries
\* the source again, however little time has passed.
C13_FailureRetry ==
    [][/\ (pc = "select" /\ sourceFailed # <<>> /\ sourceFailed[Len(sourceFailed)])
            => sourceCalled'
       /\ (pc = "select" /\ sourceFailed'[Len(sourceFailed')])
            => /\ symbols' = <<>>
               /\ raised' = ""
               /\ pc' = "backoff"
               /\ load_from_csv(csv', now') = Absent
    ]_vars

\* the call after a failed source call, less than CACHE_DURATION later,
\* queried the source and got a universe
C13_Witness ==
    /\ Len(sourceFailed) = 2
    /\ sourceFailed[1]
    /\ sourceCalled
    /\ symbols # <<>>
    /\ now - StartTime < CACHE_DURATION

\* C16: the rows of the persisted universe all carry one capture timestamp,
\* and load_from_csv returns, at any time, either every persisted symbol or
\* nothing.
C16_WholeCache ==
    /\ \A i, j \in 1..Len(csv.rows) : csv.rows[i][2] = csv.rows[j][2]
    /\ \A t \in {now} \cup UNION {{csv.rows[i][2] + CACHE_DURATION - 1,
                                   csv.rows[i][2] + CACHE_DURATION}
                                     : i \in 1..Len(csv.rows)} :
            load_from_csv(csv, t) \in {Absent, Some(Universe(csv))}

\* a universe of two rows saved in this run is served whole in a later cycle
C16_Witness ==
    /\ Len(csv.rows) = 2
    /\ csv.rows[1][2] >= StartTime
    /\ cycle = 2
    /\ ~sourceCalled
    /\ symbols = Universe(csv)

\* C18: the entry of an identity is the score and the time of the last
\* scorer call for it: a hit leaves the timestamp as it is.
C18_HitKeepsTimestamp ==
    /\ \A k \in DOMAIN NEWS_CACHE :
          k \in DOMAIN scoredAt /\ NEWS_CACHE[k] = scoredAt[k]
    /\ \A i \in 1..Len(trace) :
          (Has(trace[i].id) /\ Has(trace[i].sentiment)) =>
              LET k == Val(trace[i].id)
              IN IF trace[i].scored THEN NEWS_CACHE[k][2] = now
                 ELSE \/ NEWS_CACHE[k][2] < now
                      \/ \E j \in 1..(i - 1) :
                            trace[j].scored /\ trace[j].id = trace[i].id

\* an entry scored POLL_INTERVAL ago was served and still carries the time of its scoring
C18_Witness ==
    \E i \in 1..Len(trace) :
        /\ trace[i].hit
        /\ NEWS_CACHE[Val(trace[i].id)][2] = now - POLL_INTERVAL

\* C19: in the snapshot process_news returns, a symbol has the score of the
\* last item of the list that was attributed to it, and 0 when no item was.
C19_LastItemWins ==
    pc = "report" =>
        \A s \in Range(symbols) :
            LET mine == {i \in 1..Len(trace) :
                            trace[i].assigned /\ trace[i].matched = Some(s)}
            IN sentiments[s] =
                  IF mine = {} THEN 0
                  ELSE LET last == CHOOSE i \in mine : \A j \in mine : j <= i
                       IN Val(trace[last].sentiment)

\* two items with different scores were attributed to one symbol while
\* another symbol of the universe got none
C19_Witness ==
    /\ pc = "report"
    /\ \E i, j \in 1..Len(trace) :
          /\ i < j
          /\ trace[i].assigned /\ trace[j].assigned
          /\ trace[i].matched = trace[j].matched
          /\ trace[i].sentiment # trace[j].sentiment
          /\ \E s \in Range(symbols) : Some(s) # trace[i].matched

\* C12 as claimed: filter_stocks includes a symbol iff
\* MIN_PRICE <= price < MAX_PRICE and float_shares < FLOAT_CEILING; a price
\* of exactly MAX_PRICE, a missing or an unusable price excludes the symbol.
C12_Claimed ==
    Has(fs_filtered) =>
        \A i \in 1..Len(fs_symbols) :
            LET q == fs_info[fs_symbols[i]]
            IN fs_symbols[i] \in Range(Val(fs_filtered)) <=>
                  /\ q.kind = "ok"
                  /\ Has(q.price)
                  /\ MIN_PRICE * 100 <= Val(q.price)
                  /\ Val(q.price) < MAX_PRICE * 100
                  /\ Has(q.floatShares)
                  /\ Val(q.floatShares) < FLOAT_CEILING

\* C12: filter_stocks returns, in listing order, the first MAX_FILTERED
\* symbols whose lookup succeeds with MIN_PRICE <= price <= MAX_PRICE (both
\* limits included) and a known float_shares < FLOAT_CEILING; a missing or
\* unusable price, a missing float and a failed lookup exclude the symbol and
\* leave the filtering of the symbols after it as it is.
C12_FilterPredicate ==
    Has(fs_filtered) =>
        LET out == Val(fs_filtered)
            good == {i \in 1..Len(fs_symbols) :
                        LET q == fs_info[fs_symbols[i]]
                        IN /\ q.kind = "ok"
                           /\ Has(q.price)
                           /\ MIN_PRICE * 100 <= Val(q.price)
                           /\ Val(q.price) <= MAX_PRICE * 100
                           /\ Has(q.floatShares)
                           /\ Val(q.floatShares) < FLOAT_CEILING}
            taken == {i \in good :
                        Cardinality({j \in good : j < i}) < MAX_FILTERED}
        IN /\ Len(out) = Cardinality(taken)
           /\ \A i \in 1..Len(fs_symbols) :
                 fs_symbols[i] \in Range(out) <=> i \in taken
           /\ \A a, b \in 1..Len(out) :
                 a < b => Len(out[a]) < Len(out[b])

\* a symbol priced exactly MAX_PRICE is in the universe, and so is a symbol
\* listed after one whose lookup raised
C12_Witness ==
    /\ Has(fs_filtered)
    /\ \E i \in 1..Len(fs_symbols) :
          /\ fs_info[fs_symbols[i]].price = Some(MAX_PRICE * 100)
          /\ fs_symbols[i] \in Range(Val(fs_filtered))
    /\ \E i, j \in 1..Len(fs_symbols) :
          /\ i < j
          /\ fs_info[fs_symbols[i]].kind = "raises"
          /\ fs_symbols[j] \in Range(Val(fs_filtered))

\* C15: for a universe of k * GROUP_SIZE + r symbols (0 <= r < GROUP_SIZE,
\* GROUP_SIZE = 20) the news fetch issues k + (1 if r > 0 else 0) group
\* queries, each names at most GROUP_SIZE symbols, and every symbol of the
\* universe is named by exactly one of them.
C15_Claimed ==
    (steps # <<>> /\ steps[Len(steps)][1] = "FETCHING") =>
        LET GROUP_SIZE == 20
            S == Range(symbols)
            k == Cardinality(S) \div GROUP_SIZE
            r == Cardinality(S) % GROUP_SIZE
        IN /\ Len(queries) = k + (IF r > 0 THEN 1 ELSE 0)
           /\ \A g \in 1..Len(queries) : Cardinality(queries[g]) <= GROUP_SIZE
           /\ \A s \in S :
                 Cardinality({g \in 1..Len(queries) : s \in queries[g]}) = 1

====
